---- MODULE Spec2Model ----
(***************************************************************************)
(* Menu generation orchestrator and history retention of the generate-menu *)
(* route (src/src/app/api/generate-menu/route.ts).                         *)
(*                                                                         *)
(* Each request slot runs the POST handler from the retry loop on: the     *)
(* external generation call, the response validator, the creation of the   *)
(* menu record and the retention trim (findMany, deleteMany).  Every await *)
(* of the handler is a point where other requests interleave; the code      *)
(* between two awaits is one step.  The menu store is shared by all         *)
(* requests.  createdAt is a logical clock that advances with every create: *)
(* no two records have the same createdAt, and a listing by createdAt is    *)
(* a listing by insertion order.  A store operation that rejects leaves the *)
(* store as it was.                                                         *)
(***************************************************************************)
EXTENDS Integers, Sequences, FiniteSets, TLC

\* ---------------------------------------------------------------- bounds
MaxMenus == 6

MaxHot == 8

MaxCold == 3

MaxSelect == 3

MaxPool == 6

MaxProse == 2

Requests == {"r1", "r2"}

Uploads == {"u1", "u2"}

Canteens == {"c1", "c2"}

\* --------------------------------------------------- program constants
maxAttempts == 3

RetentionCount == 4

Days == {"monday", "tuesday", "wednesday", "thursday", "friday"}

\* ------------------------------------------------------- value helpers
\* WeekMenu | null
Null == <<>>

Some(m) == <<m>>

\* a member of the decoded object: its JSON type, and for an array the JSON
\* text of its elements with their type
Absent == [type |-> "absent", items |-> <<>>, elem |-> "string"]

StringValue == [type |-> "string", items |-> <<"dish">>, elem |-> "string"]

ArrayOf(items) == [type |-> "array", items |-> items, elem |-> "string"]

ArrayOfNumbers(items) == [type |-> "array", items |-> items, elem |-> "number"]

\* decoded payloads the generator may return
MenuA == [d \in Days |-> ArrayOf(<<"dishA(main)", "dishB(cold)">>)]

MenuEmptyDays == [d \in Days |-> ArrayOf(<<>>)]

MenuMissingFriday == [d \in Days |-> IF d = "friday" THEN Absent ELSE ArrayOf(<<"dishA(main)">>)]

MenuStringDay == [d \in Days |-> IF d = "monday" THEN StringValue ELSE ArrayOf(<<"dishA(main)">>)]

\* {"monday": [12, 7], ...}
MenuNumbers == [d \in Days |-> ArrayOfNumbers(<<"12", "7">>)]

EmptyObject == [d \in Days |-> Absent]

\* a message content returned by the generator: defined or not, whether it
\* holds a {...} substring, whether that substring decodes, and the decoded data
Content(defined, braces, decodes, data) == [defined |-> defined, braces |-> braces, decodes |-> decodes, data |-> data]

AiContents ==
  { Content(FALSE, FALSE, FALSE, EmptyObject),
    Content(TRUE, FALSE, FALSE, EmptyObject),
    Content(TRUE, TRUE, FALSE, EmptyObject),
    Content(TRUE, TRUE, TRUE, MenuMissingFriday),
    Content(TRUE, TRUE, TRUE, MenuStringDay),
    Content(TRUE, TRUE, TRUE, MenuA),
    Content(TRUE, TRUE, TRUE, MenuEmptyDays) }

\* what a transport failure carries: fetch rejects, or a non-2xx status
TransportErrors == {"network error", "Deepseek API error: 500"}

\* the result of one external call as the loop sees it
Thrown(e) == [ok |-> FALSE, error |-> e, content |-> Content(FALSE, FALSE, FALSE, EmptyObject)]

Returned(content) == [ok |-> TRUE, error |-> "", content |-> content]

\* ------------------------------------------------------ response validator
IsArray(v) == v.type = "array"

\* variant: an empty array counts as missing
FalsyOrEmpty(v) == v.type = "absent" \/ Len(v.items) = 0

\* !value for an object member: true when the key is missing
Falsy(v) == v.type = "absent"

\* variant: Array.isArray is not tested
parseMenuResponseNoArrayCheck(content) ==
  IF ~content.defined THEN Null
  ELSE IF ~content.braces THEN Null
  ELSE IF ~content.decodes THEN Null
  ELSE IF \E day \in Days : Falsy(content.data[day]) THEN Null
  ELSE Some(content.data)

parseMenuResponse(content) ==
  IF ~content.defined THEN Null
  ELSE IF ~content.braces THEN Null
  ELSE IF ~content.decodes THEN Null
  ELSE IF \E day \in Days : Falsy(content.data[day]) \/ ~IsArray(content.data[day]) THEN Null
  ELSE Some(content.data)

\* how one attempt ended
Kind(u) == IF ~u.ok THEN "transport" ELSE IF parseMenuResponse(u.content) = Null THEN "parse" ELSE "valid"

Kinds(us) == [i \in 1..Len(us) |-> Kind(us[i])]

\* ------------------------------------------------------------- responses
NoResponse == [status |-> 0, error |-> "", menu |-> Null, menuId |-> 0, detail |-> <<>>]

\* variant: the last upstream text or error is passed on to the caller
ExhaustedResponseLeaky(seen) == [status |-> 500, error |-> "generation failed, retry later", menu |-> Null, menuId |-> 0, detail |-> seen]

\* seen: what the attempts returned (logged only)
ExhaustedResponse(seen) == [status |-> 500, error |-> "generation failed, retry later", menu |-> Null, menuId |-> 0, detail |-> <<>>]

SystemErrorResponse == [status |-> 500, error |-> "system error, retry later", menu |-> Null, menuId |-> 0, detail |-> <<>>]

SuccessResponse(menu, id) == [status |-> 200, error |-> "", menu |-> menu, menuId |-> id, detail |-> <<>>]

\* ------------------------------------------------------------ menu store
Min2(a, b) == IF a <= b THEN a ELSE b

RECURSIVE SortDesc(_)
SortDesc(S) ==
  IF S = {} THEN <<>>
  ELSE LET newest == CHOOSE m \in S : \A o \in S : o.createdAt <= m.createdAt
       IN <<newest>> \o SortDesc(S \ {newest})

RECURSIVE SortAsc(_)
SortAsc(S) ==
  IF S = {} THEN <<>>
  ELSE LET oldest == CHOOSE m \in S : \A o \in S : m.createdAt <= o.createdAt
       IN <<oldest>> \o SortAsc(S \ {oldest})

\* variant: the listing is not restricted to the canteen
FindManyAllCanteens(store, c) == SortDesc(store)

\* variant: the listing is ordered oldest first
FindManyOldestFirst(store, c) == SortAsc({m \in store : m.canteenId = c})

\* prisma.menu.findMany({ where: { canteenId }, orderBy: { createdAt: 'desc' } })
FindMany(store, c) == SortDesc({m \in store : m.canteenId = c})

\* allMenus.slice(k)
Slice(s, k) == SubSeq(s, k + 1, Len(s))

\* .map(m => m.id)
IdsOf(s) == [i \in 1..Len(s) |-> s[i].id]

Range(s) == {s[i] : i \in 1..Len(s)}

\* prisma.menu.deleteMany({ where: { id: { in: ids } } })
DeleteMany(store, ids) == {m \in store : m.id \notin ids}

\* variant: one record too many is cut
TrimTargetsKeepThree(all) == IF Len(all) > RetentionCount THEN Range(Slice(all, RetentionCount - 1)) ELSE {}

\* variant: only the oldest record is cut
TrimTargetsOldestOnly(all) == IF Len(all) > RetentionCount THEN {all[Len(all)]} ELSE {}

\* the ids the trim deletes for a listing: allMenus.slice(4).map(m => m.id)
TrimTargets(all) == IF Len(all) > RetentionCount THEN Range(Slice(all, RetentionCount)) ELSE {}

\* the whole trim on a store: list newest first, delete beyond the 4th
Trim(store, c) == DeleteMany(store, TrimTargets(IdsOf(FindMany(store, c))))

\* ------------------------------------------------------ constraint mapper
\* what a lookup of a missing key yields, and what a template renders for it
Undefined == "undefined"

\* promptTemplate.parameterMappings, keys and fragments in transliteration
EquipmentMapping ==
  ("steamer" :> "steamer short: no steamed dishes") @@
  ("oven" :> "oven short: no baked dishes") @@
  ("wok" :> "wok short: at most 2 stir-fried dishes") @@
  ("stewpot" :> "stewpot short: no stewed dishes") @@
  ("roaster" :> "roaster short: no braised dishes") @@
  ("none" :> "all equipment sufficient: use it in balance")

WorkRatioMapping ==
  ("1:1:1" :> "ratio 1:1:1") @@
  ("1:0.5:0.5" :> "ratio 1:0.5:0.5") @@
  ("0.5:1:0.5" :> "ratio 0.5:1:0.5") @@
  ("0.5:0.5:1" :> "ratio 0.5:0.5:1") @@
  ("no requirement" :> "")

StaffMapping ==
  ("scarce" :> "staff scarce: complex knife work at most 20%") @@
  ("abundant" :> "staff abundant: complex knife work 20-33%")

SpicyMapping ==
  ("none" :> "no spicy dishes") @@
  ("mild" :> "mild: spicy dishes 10-20%") @@
  ("medium" :> "medium: spicy dishes 20-30%")

FlavorMapping ==
  ("true" :> "at least 5 of the 9 flavours per meal") @@
  ("false" :> "no requirement")

IngredientMapping ==
  ("4 kinds" :> "at least 4 raw materials per meal") @@
  ("5 kinds" :> "at least 5 raw materials per meal") @@
  ("6 kinds" :> "at least 6 raw materials per meal") @@
  ("no requirement" :> "")

\* the initial value of equipmentRequirement
DefaultEquipmentRequirement == "all equipment sufficient: use it in balance"

\* the separator of requirements.join
Separator == ";"

\* mappings[table][key]
Lookup(table, key) == IF key \in DOMAIN table THEN table[key] ELSE Undefined

\* Boolean(fragment)
Truthy(fragment) == fragment \notin {Undefined, ""}

\* .map(item => mappings[...][item])
MapLookup(table, items) == [i \in 1..Len(items) |-> Lookup(table, items[i])]

\* .filter(Boolean)
FilterBoolean(fragments) == SelectSeq(fragments, Truthy)

\* .join(sep): the fragments with a separator between neighbours
RECURSIVE Join(_, _)
Join(fragments, sep) ==
  IF Len(fragments) = 0 THEN <<>>
  ELSE IF Len(fragments) = 1 THEN fragments
  ELSE <<Head(fragments), sep>> \o Join(Tail(fragments), sep)

\* a JSON value of the request body that is a boolean or a string
JsBoolean(b) == [type |-> "boolean", bool |-> b, text |-> ""]

JsString(s) == [type |-> "string", bool |-> FALSE, text |-> s]

\* value.toString()
toString(v) == IF v.type = "boolean" THEN (IF v.bool THEN "true" ELSE "false") ELSE v.text

\* variant: the selection is joined whether it is empty or not
equipmentRequirementNoDefault(params) ==
  Join(FilterBoolean(MapLookup(EquipmentMapping, params.equipmentShortage)), Separator)

\* the text of rule 1, as the sequence of its fragments and separators
equipmentRequirement(params) ==
  IF Len(params.equipmentShortage) > 0
  THEN Join(FilterBoolean(MapLookup(EquipmentMapping, params.equipmentShortage)), Separator)
  ELSE <<DefaultEquipmentRequirement>>

staffRequirement(params) == Lookup(StaffMapping, params.staffSituation)

spicyRequirement(params) == Lookup(SpicyMapping, params.spicyLevel)

flavorRequirement(params) == Lookup(FlavorMapping, toString(params.flavorDiversity))

ingredientRequirement(params) == Lookup(IngredientMapping, params.ingredientDiversity)

workRatioRequirement(params) == Lookup(WorkRatioMapping, params.workRatio)

\* ------------------------------------------------------- quota calculator
\* variant: Math.floor
RoundDown(num, den) == num \div den

\* Math.round(num / den) for num >= 0, den > 0: halves go up
Round(num, den) == (2 * num + den) \div (2 * den)

\* variant: the cold dishes are left out of the week
totalDishesPerWeekHotOnly(canteenInfo) == canteenInfo.hotDishCount * 5

totalDishesPerWeek(canteenInfo) == (canteenInfo.hotDishCount + canteenInfo.coldDishCount) * 5

historicalDishCount(canteenInfo, params) == Round(totalDishesPerWeek(canteenInfo) * params.historicalRatio, 100)

\* variant: the original share is rounded on its own
originalDishCountRounded(canteenInfo, params) ==
  Round(totalDishesPerWeek(canteenInfo) * (100 - params.historicalRatio), 100)

originalDishCount(canteenInfo, params) == totalDishesPerWeek(canteenInfo) - historicalDishCount(canteenInfo, params)

\* ----------------------------------------------------- instruction composer
\* the slack of the historical sample
SampleSlack == 10

\* historicalMenus.flat()
RECURSIVE Flat(_)
Flat(pools) == IF Len(pools) = 0 THEN <<>> ELSE Head(pools) \o Flat(Tail(pools))

\* s.slice(0, n)
SliceTo(s, n) == IF n >= 0 THEN SubSeq(s, 1, Min2(n, Len(s))) ELSE SubSeq(s, 1, Len(s) + n)

\* variant: the sample is cut at the historical count itself
historicalDishesNoSlack(canteenInfo, params, historicalMenus) ==
  SliceTo(Flat(historicalMenus), historicalDishCount(canteenInfo, params))

historicalDishes(canteenInfo, params, historicalMenus) ==
  SliceTo(Flat(historicalMenus), historicalDishCount(canteenInfo, params) + SampleSlack)

\* the numbers the template puts into the text before the rules, in order
Narrative(canteenInfo, params) ==
  << canteenInfo.hotDishCount, canteenInfo.coldDishCount,
     params.mainMeatCount, params.halfMeatCount, params.vegetarianCount,
     totalDishesPerWeek(canteenInfo), historicalDishCount(canteenInfo, params), originalDishCount(canteenInfo, params),
     historicalDishCount(canteenInfo, params) >>

\* variant: item 5 repeats the historical count
ChecklistRepeated(canteenInfo, params) ==
  << <<canteenInfo.hotDishCount + canteenInfo.coldDishCount>>,
     <<canteenInfo.hotDishCount, canteenInfo.coldDishCount>>,
     <<>>,
     <<historicalDishCount(canteenInfo, params)>>,
     <<historicalDishCount(canteenInfo, params)>>,
     <<>> >>

\* the numbers the template puts into the six items of the closing list
Checklist(canteenInfo, params) ==
  << <<canteenInfo.hotDishCount + canteenInfo.coldDishCount>>,
     <<canteenInfo.hotDishCount, canteenInfo.coldDishCount>>,
     <<>>,
     <<historicalDishCount(canteenInfo, params)>>,
     <<originalDishCount(canteenInfo, params)>>,
     <<>> >>

\* the instruction: the texts and numbers the template is filled with
buildPrompt(canteenInfo, params, historicalMenus) ==
  [ narrative |-> Narrative(canteenInfo, params),
    equipmentRequirement |-> equipmentRequirement(params),
    workRatioRequirement |-> workRatioRequirement(params),
    ingredientRequirement |-> ingredientRequirement(params),
    spicyRequirement |-> spicyRequirement(params),
    staffRequirement |-> staffRequirement(params),
    flavorRequirement |-> flavorRequirement(params),
    totalDishesPerWeek |-> totalDishesPerWeek(canteenInfo),
    historicalDishCount |-> historicalDishCount(canteenInfo, params),
    originalDishCount |-> originalDishCount(canteenInfo, params),
    historicalDishes |-> historicalDishes(canteenInfo, params, historicalMenus),
    perDay |-> Round(historicalDishCount(canteenInfo, params), 5),
    checklist |-> Checklist(canteenInfo, params) ]

\* no instruction composed yet
NoPrompt ==
  [ narrative |-> <<>>, equipmentRequirement |-> <<>>, workRatioRequirement |-> "",
    ingredientRequirement |-> "", spicyRequirement |-> "", staffRequirement |-> "",
    flavorRequirement |-> "", totalDishesPerWeek |-> 0, historicalDishCount |-> 0, originalDishCount |-> 0,
    historicalDishes |-> <<>>, perDay |-> 0, checklist |-> <<>> ]

\* ------------------------------------------------------ canteens, requests
\* Math.ceil(a / b) for a >= 0, b > 0
Ceil(a, b) == (a + b - 1) \div b

\* the form's initial values for a canteen (dashboard)
getDefaultValues(canteenInfo) ==
  [ mainMeatCount |-> Ceil(canteenInfo.hotDishCount, 3),
    halfMeatCount |-> Ceil(canteenInfo.hotDishCount, 3),
    vegetarianCount |-> canteenInfo.hotDishCount - Ceil(canteenInfo.hotDishCount, 3) * 2,
    staffSituation |-> "scarce",
    historicalRatio |-> 30,
    equipmentShortage |-> <<>>,
    spicyLevel |-> "mild",
    flavorDiversity |-> JsBoolean(FALSE),
    workRatio |-> "no requirement",
    ingredientDiversity |-> "no requirement" ]

\* ------------------------------------------------------------- dish names
\* a string of the request body: a name (0 is the empty name) with or
\* without blanks around it
Str(name, padded) == [type |-> "string", name |-> name, padded |-> padded]

\* a value of the request body that is no string
Num(n) == [type |-> "number", name |-> n, padded |-> FALSE]

\* dish.trim()
trim(dish) == [dish EXCEPT !.padded = FALSE]

\* the string has no character
IsEmptyString(dish) == dish.name = 0 /\ ~dish.padded

\* the p-th of the 4 pools with n dishes; a dish is named by a number
Pool(p, n) == [i \in 1..n |-> Str((p - 1) * MaxPool + i, FALSE)]

\* historicalMenus with the given pool sizes
Pools(sizes) == [p \in 1..Len(sizes) |-> Pool(p, sizes[p])]

CanteenInfo(hot, cold, historicalMenus) == [hotDishCount |-> hot, coldDishCount |-> cold, historicalMenus |-> historicalMenus]

\* ------------------------------------------------------------- raw replies
\* the names a payload token stands for: the object it decodes to
PayloadData == ("A" :> MenuA) @@ ("E" :> MenuEmptyDays) @@ ("F" :> MenuMissingFriday) @@ ("S" :> MenuStringDay) @@ ("N" :> MenuNumbers)

\* the text of a reply, token by token: "{", "}", "x" (any other prose) and
\* the body of an object; a reply is a prose, a payload or none, a prose
Reply(defined, prefix, payload, suffix) == [defined |-> defined, prefix |-> prefix, payload |-> payload, suffix |-> suffix]

NoReply == Reply(FALSE, <<>>, <<>>, <<>>)

TextOf(r) == r.prefix \o r.payload \o r.suffix

Positions(text, token) == {i \in 1..Len(text) : text[i] = token}

FirstOpen(text) == IF Positions(text, "{") = {} THEN 0 ELSE CHOOSE i \in Positions(text, "{") : \A j \in Positions(text, "{") : i <= j

LastClose(text) == IF Positions(text, "}") = {} THEN 0 ELSE CHOOSE i \in Positions(text, "}") : \A j \in Positions(text, "}") : j <= i

\* variant: the text must begin with "{" and end with "}"
MatchAnchored(text) ==
  IF Len(text) > 1 /\ text[1] = "{" /\ text[Len(text)] = "}" THEN text ELSE <<>>

\* content.match(/\{[\s\S]*\}/): from the first "{" to the last "}" after it, or nothing
Match(text) ==
  IF FirstOpen(text) > 0 /\ LastClose(text) > FirstOpen(text)
  THEN SubSeq(text, FirstOpen(text), LastClose(text))
  ELSE <<>>

\* JSON.parse succeeds on one object: "{}" or "{" body "}"
Decodes(sub) == sub = <<"{", "}">> \/ (Len(sub) = 3 /\ sub[1] = "{" /\ sub[3] = "}" /\ sub[2] \in DOMAIN PayloadData)

Decoded(sub) == IF Decodes(sub) /\ Len(sub) = 3 THEN PayloadData[sub[2]] ELSE EmptyObject

\* what the validator finds in a reply
Scan(r) ==
  Content(r.defined,
          r.defined /\ Match(TextOf(r)) # <<>>,
          r.defined /\ Decodes(Match(TextOf(r))),
          IF r.defined THEN Decoded(Match(TextOf(r))) ELSE EmptyObject)

\* ---------------------------------------------------------------- sessions
\* no auth-token cookie
NoToken == [present |-> FALSE, canteenId |-> "", secret |-> "", expired |-> FALSE]

\* jwt.sign({ canteenId }, secret, { expiresIn: '7d' })
Sign(c, secret) == [present |-> TRUE, canteenId |-> c, secret |-> secret, expired |-> FALSE]

\* the token once its 7 days are over
Expired(tok) == [tok EXCEPT !.expired = TRUE]

\* process.env[name] || 'fallback-secret'
Secret(environment, name) == IF environment[name] = "" THEN "fallback-secret" ELSE environment[name]

\* jwt.verify(token, secret) returns the payload; otherwise it throws
Verifies(tok, secret) == tok.secret = secret /\ ~tok.expired

\* the environment the documentation describes: NEXTAUTH_SECRET only
DocumentedEnv == [NEXTAUTH_SECRET |-> "s1", JWT_SECRET |-> ""]

\* every setting of the two secrets; "" is unset
Envs == [NEXTAUTH_SECRET : {"", "s1"}, JWT_SECRET : {"", "s1", "s2"}]

\* ------------------------------------------------- registration and uploads
\* the place of a canteen that is not in the store
NoCanteen == CanteenInfo(0, 0, <<>>)

\* a or, when a is 0 or missing, b
OrDefault(a, b) == IF a = 0 THEN b ELSE a

\* historicalMenus of a registration body: given or not
Given(pools) == [given |-> TRUE, pools |-> pools]

NotGiven == [given |-> FALSE, pools |-> <<>>]

\* the record createCanteen stores for a registration body
createCanteen(data) == CanteenInfo(data.hotDishCount, data.coldDishCount, data.historicalMenus)

\* the dish lists a client uploads
ListA == <<Str(91, FALSE), Str(92, FALSE)>>

ListB == <<Str(93, TRUE)>>

ListBlank == <<Str(94, FALSE), Str(0, TRUE)>>

ListNumber == <<Num(95)>>

UploadLists == {<<>>, ListA, ListB, ListBlank, ListNumber}

\* menuIndex of the request body
MenuIndexes == {-1, 0, 1, 2, 3, 4}

\* the registration bodies
Registrations ==
  { [hotDishCount |-> 0, coldDishCount |-> 0, historicalMenus |-> NotGiven],
    [hotDishCount |-> 2, coldDishCount |-> 1, historicalMenus |-> Given(Pools(<<2, 2, 2, 2>>))],
    [hotDishCount |-> 2, coldDishCount |-> 1, historicalMenus |-> Given(Pools(<<2, 0, 2, 2>>))],
    [hotDishCount |-> 2, coldDishCount |-> 1, historicalMenus |-> Given(<<ListA, ListBlank, ListA, ListA>>)] }

\* the dishes are an array that is not empty
IsDishArray(dishes) == Len(dishes) > 0

\* typeof dish !== 'string' || dish.trim() === ''
BadDish(dish) == dish.type # "string" \/ IsEmptyString(trim(dish))

\* dishes.map(dish => dish.trim()).filter(dish => dish.length > 0)
RECURSIVE cleanedDishes(_)
cleanedDishes(dishes) ==
  IF Len(dishes) = 0 THEN <<>>
  ELSE IF IsEmptyString(trim(Head(dishes))) THEN cleanedDishes(Tail(dishes))
  ELSE <<trim(Head(dishes))>> \o cleanedDishes(Tail(dishes))

\* newHistoricalMenus = [...current]; newHistoricalMenus[menuIndex] = cleaned
ReplacePool(current, menuIndex, cleaned) == [current EXCEPT ![menuIndex + 1] = cleaned]

\* the answer of a read-only endpoint: none yet
NoAnswer == [endpoint |-> "", cookie |-> NoToken, status |-> 0]

\* an upload request: not running, between its read and its write, or answered
NoUpload == [pc |-> "idle", cookie |-> NoToken, canteenId |-> "", menuIndex |-> 0, dishes |-> <<>>, current |-> <<>>, status |-> 0]

\* ------------------------------------------------------------------ inputs
\* historicalRatio, in percent
Percents == 0..100

\* the ratios the form offers
FormRatios == {0, 30, 50, 70}

DefaultPools == Pools(<<MaxPool, MaxPool, MaxPool, MaxPool>>)

DefaultCanteen == CanteenInfo(8, 3, DefaultPools)

DefaultParams == getDefaultValues(DefaultCanteen)

\* values no table has a key for
UnknownEquipment == "microwave"

EquipmentValues == DOMAIN EquipmentMapping \cup {UnknownEquipment}

\* equipmentShortage: every array of at most MaxSelect values
Selections == UNION {[1..k -> EquipmentValues] : k \in 0..MaxSelect}

\* canteens and ratios for the quota
QuotaInputs ==
  { <<CanteenInfo(hot, cold, DefaultPools),
      [getDefaultValues(CanteenInfo(hot, cold, DefaultPools)) EXCEPT !.historicalRatio = pct]>> :
      hot \in 1..MaxHot, cold \in 1..MaxCold, pct \in Percents }

\* requests that differ from the form's initial values in one constraint
MapperInputs ==
  {<<DefaultCanteen, [DefaultParams EXCEPT !.equipmentShortage = sel]>> : sel \in Selections}
  \cup {<<DefaultCanteen, [DefaultParams EXCEPT !.staffSituation = v]>> : v \in DOMAIN StaffMapping \cup {"overstaffed"}}
  \cup {<<DefaultCanteen, [DefaultParams EXCEPT !.spicyLevel = v]>> : v \in DOMAIN SpicyMapping \cup {"hot"}}
  \cup {<<DefaultCanteen, [DefaultParams EXCEPT !.flavorDiversity = v]>> : v \in {JsBoolean(TRUE), JsBoolean(FALSE), JsString("sweet")}}
  \cup {<<DefaultCanteen, [DefaultParams EXCEPT !.ingredientDiversity = v]>> : v \in DOMAIN IngredientMapping \cup {"7 kinds"}}
  \cup {<<DefaultCanteen, [DefaultParams EXCEPT !.workRatio = v]>> : v \in DOMAIN WorkRatioMapping \cup {"2:1:1"}}

PoolSizes == {0, MaxPool \div 2, MaxPool}

\* small canteens with pools of every size
SampleInputs ==
  { <<CanteenInfo(1, 1, Pools(sizes)),
      [getDefaultValues(CanteenInfo(1, 1, Pools(sizes))) EXCEPT !.historicalRatio = pct]>> :
      sizes \in [1..4 -> PoolSizes], pct \in FormRatios \cup {100} }

ComposeInputs == QuotaInputs \cup MapperInputs \cup SampleInputs

ProseTokens == {"x", "{", "}"}

\* every prose of at most MaxProse tokens
Prose == UNION {[1..k -> ProseTokens] : k \in 0..MaxProse}

Payloads == {<<>>} \cup {<<"{", b, "}">> : b \in DOMAIN PayloadData}

\* the replies of the generator: no text, or a payload or none between two proses
Replies == {NoReply} \cup {Reply(TRUE, p, b, s) : p \in Prose, b \in Payloads, s \in Prose}

VARIABLES menus, clock, pc, canteenId, attempts, weekMenu, allMenus, menuId, response, inflight, calls, outcomes, created, solo,
          profile, body, reply, prompt, cookie, sent, env, accounts, upd, session, last

vars == <<menus, clock, pc, canteenId, attempts, weekMenu, allMenus, menuId, response, inflight, calls, outcomes, created, solo,
          profile, body, reply, prompt, cookie, sent, env, accounts, upd, session, last>>

\* what the generation handler never writes
siteVars == <<env, accounts, upd, session, last>>

Active(r) == pc[r] \notin {"idle", "done"}

RecordsOf(c) == {m \in menus : m.canteenId = c}

\* no record, no request; no instruction composed
Idle ==
  /\ menus = {}
  /\ clock = 0
  /\ pc = [r \in Requests |-> "idle"]
  /\ canteenId = [r \in Requests |-> "c1"]
  /\ attempts = [r \in Requests |-> 0]
  /\ weekMenu = [r \in Requests |-> Null]
  /\ allMenus = [r \in Requests |-> <<>>]
  /\ menuId = [r \in Requests |-> 0]
  /\ response = [r \in Requests |-> NoResponse]
  /\ inflight = [r \in Requests |-> 0]
  /\ calls = [r \in Requests |-> 0]
  /\ outcomes = [r \in Requests |-> <<>>]
  /\ created = [r \in Requests |-> 0]
  /\ solo = [r \in Requests |-> TRUE]
  /\ prompt = [r \in Requests |-> NoPrompt]
  /\ cookie = [r \in Requests |-> NoToken]
  /\ sent = [r \in Requests |-> <<>>]
  /\ upd = [u \in Uploads |-> NoUpload]
  /\ session = NoToken
  /\ last = NoAnswer

\* every canteen as the scenario has it, every request with the form's initial values
Init ==
  /\ Idle
  /\ profile = [c \in Canteens |-> DefaultCanteen]
  /\ body = [r \in Requests |-> DefaultParams]
  /\ reply = NoReply
  /\ env = DocumentedEnv
  /\ accounts = Canteens

\* 401 without a token
NotLoggedInResponse == [status |-> 401, error |-> "not logged in", menu |-> Null, menuId |-> 0, detail |-> <<>>]

\* 403 for the canteen of somebody else
ForbiddenResponse == [status |-> 403, error |-> "no permission for this canteen", menu |-> Null, menuId |-> 0, detail |-> <<>>]

\* 404 for a canteen that is not in the store
NotFoundResponse == [status |-> 404, error |-> "canteen does not exist", menu |-> Null, menuId |-> 0, detail |-> <<>>]

\* variant: the canteen of the token is not compared with the canteen of the body
GateResponseNoOwnerCheck(tok, c) ==
  IF ~tok.present THEN NotLoggedInResponse
  ELSE IF ~Verifies(tok, Secret(env, "NEXTAUTH_SECRET")) THEN SystemErrorResponse
  ELSE IF c \notin accounts THEN NotFoundResponse
  ELSE NoResponse

\* what the head of the handler answers to a request with cookie tok for
\* canteen c: NoResponse when it lets the request through.  A jwt.verify that
\* throws is caught by the outer catch.
GateResponse(tok, c) ==
  IF ~tok.present THEN NotLoggedInResponse
  ELSE IF ~Verifies(tok, Secret(env, "NEXTAUTH_SECRET")) THEN SystemErrorResponse
  ELSE IF tok.canteenId # c THEN ForbiddenResponse
  ELSE IF c \notin accounts THEN NotFoundResponse
  ELSE NoResponse

\* the token a login for canteen c sets as the cookie
LoginToken(c) == Sign(c, Secret(env, "NEXTAUTH_SECRET"))

\* a request with cookie tok for canteen c passes the head of the handler,
\* composes its instruction and enters the retry loop: weekMenu = null,
\* attempts = 0
Admit(r, tok, c) ==
  /\ ~Active(r)
  /\ GateResponse(tok, c) = NoResponse
  /\ cookie' = [cookie EXCEPT ![r] = tok]
  /\ sent' = [sent EXCEPT ![r] = <<>>]
  /\ prompt' = [prompt EXCEPT ![r] = buildPrompt(profile[c], body[r], profile[c].historicalMenus)]
  /\ pc' = [pc EXCEPT ![r] = "loop"]
  /\ canteenId' = [canteenId EXCEPT ![r] = c]
  /\ attempts' = [attempts EXCEPT ![r] = 0]
  /\ weekMenu' = [weekMenu EXCEPT ![r] = Null]
  /\ allMenus' = [allMenus EXCEPT ![r] = <<>>]
  /\ menuId' = [menuId EXCEPT ![r] = 0]
  /\ response' = [response EXCEPT ![r] = NoResponse]
  /\ calls' = [calls EXCEPT ![r] = 0]
  /\ outcomes' = [outcomes EXCEPT ![r] = <<>>]
  /\ created' = [created EXCEPT ![r] = 0]
  /\ solo' = [q \in Requests |->
               IF q = r THEN ~\E o \in Requests \ {r} : Active(o) /\ canteenId[o] = c
               ELSE IF Active(q) /\ canteenId[q] = c THEN FALSE ELSE solo[q]]
  /\ UNCHANGED <<menus, clock, inflight, profile, body, reply, siteVars>>

\* a request of a logged-in client for its own canteen
Start(r, c) == Admit(r, LoginToken(c), c)

\* variant: the bound is tested with <=
LoopContinuesOffByOne(r) == pc[r] = "loop" /\ weekMenu[r] = Null /\ attempts[r] <= maxAttempts

\* variant: only transport failures count against the budget
LoopContinuesTransportOnly(r) ==
  /\ pc[r] = "loop"
  /\ weekMenu[r] = Null
  /\ Cardinality({i \in 1..Len(outcomes[r]) : Kind(outcomes[r][i]) = "transport"}) < maxAttempts

\* variant: the call is not awaited before the loop goes on
LoopContinuesNoAwait(r) == pc[r] \in {"loop", "await"} /\ weekMenu[r] = Null /\ attempts[r] < maxAttempts

\* while (!weekMenu && attempts < maxAttempts)
LoopContinues(r) == pc[r] = "loop" /\ weekMenu[r] = Null /\ attempts[r] < maxAttempts

\* variant: the instruction is composed again from the stored canteen for
\* every attempt
IssueRecompose(r) ==
  /\ LoopContinues(r)
  /\ attempts' = [attempts EXCEPT ![r] = @ + 1]
  /\ calls' = [calls EXCEPT ![r] = @ + 1]
  /\ inflight' = [inflight EXCEPT ![r] = @ + 1]
  /\ pc' = [pc EXCEPT ![r] = "await"]
  /\ sent' = [sent EXCEPT ![r] = Append(@, buildPrompt(profile[canteenId[r]], body[r],
                                                        profile[canteenId[r]].historicalMenus))]
  /\ UNCHANGED <<menus, clock, canteenId, weekMenu, allMenus, menuId, response, outcomes, created, solo, profile, body, reply, prompt, cookie, siteVars>>

\* attempts++ ; callDeepseekAPI(prompt) is issued and awaited
Issue(r) ==
  /\ LoopContinues(r)
  /\ attempts' = [attempts EXCEPT ![r] = @ + 1]
  /\ calls' = [calls EXCEPT ![r] = @ + 1]
  /\ inflight' = [inflight EXCEPT ![r] = @ + 1]
  /\ pc' = [pc EXCEPT ![r] = "await"]
  /\ sent' = [sent EXCEPT ![r] = Append(@, prompt[r])]
  /\ UNCHANGED <<menus, clock, canteenId, weekMenu, allMenus, menuId, response, outcomes, created, solo, profile, body, reply, prompt, cookie, siteVars>>

\* the call throws (network error, non-2xx status, undecodable body): caught, logged
TransportFail(r, e) ==
  /\ pc[r] = "await"
  /\ inflight' = [inflight EXCEPT ![r] = @ - 1]
  /\ outcomes' = [outcomes EXCEPT ![r] = Append(@, Thrown(e))]
  /\ pc' = [pc EXCEPT ![r] = "loop"]
  /\ UNCHANGED <<menus, clock, canteenId, attempts, weekMenu, allMenus, menuId, response, calls, created, solo, profile, body, reply, prompt, cookie, sent, siteVars>>

\* the call returns a content, which is validated at once
Return(r, content) ==
  /\ pc[r] = "await"
  /\ inflight' = [inflight EXCEPT ![r] = @ - 1]
  /\ weekMenu' = [weekMenu EXCEPT ![r] = parseMenuResponse(content)]
  /\ outcomes' = [outcomes EXCEPT ![r] = Append(@, Returned(content))]
  /\ pc' = [pc EXCEPT ![r] = "loop"]
  /\ UNCHANGED <<menus, clock, canteenId, attempts, allMenus, menuId, response, calls, created, solo, profile, body, reply, prompt, cookie, sent, siteVars>>

\* the loop is left
LoopExits(r) == pc[r] = "loop" /\ ~LoopContinues(r)

\* the handler returns: its locals go out of scope
Respond(r, resp) ==
  /\ response' = [response EXCEPT ![r] = resp]
  /\ pc' = [pc EXCEPT ![r] = "done"]
  /\ weekMenu' = [weekMenu EXCEPT ![r] = Null]
  /\ allMenus' = [allMenus EXCEPT ![r] = <<>>]

\* a request the head of the handler turns away
Refuse(r, tok, c) ==
  /\ ~Active(r)
  /\ GateResponse(tok, c) # NoResponse
  /\ cookie' = [cookie EXCEPT ![r] = tok]
  /\ canteenId' = [canteenId EXCEPT ![r] = c]
  /\ sent' = [sent EXCEPT ![r] = <<>>]
  /\ prompt' = [prompt EXCEPT ![r] = NoPrompt]
  /\ attempts' = [attempts EXCEPT ![r] = 0]
  /\ menuId' = [menuId EXCEPT ![r] = 0]
  /\ calls' = [calls EXCEPT ![r] = 0]
  /\ outcomes' = [outcomes EXCEPT ![r] = <<>>]
  /\ created' = [created EXCEPT ![r] = 0]
  /\ Respond(r, GateResponse(tok, c))
  /\ UNCHANGED <<menus, clock, inflight, solo, profile, body, reply, siteVars>>

\* variant: when the attempts are used up the loop starts over
ExhaustedRestart(r) ==
  /\ LoopExits(r)
  /\ weekMenu[r] = Null
  /\ attempts' = [attempts EXCEPT ![r] = 0]
  /\ calls' = [calls EXCEPT ![r] = 0]
  /\ outcomes' = [outcomes EXCEPT ![r] = <<>>]
  /\ sent' = [sent EXCEPT ![r] = <<>>]
  /\ UNCHANGED <<menus, clock, pc, canteenId, weekMenu, allMenus, menuId, response, inflight, created, solo, profile, body, reply, prompt, cookie, siteVars>>

\* if (!weekMenu) return 500 'generation failed'
Exhausted(r) ==
  /\ LoopExits(r)
  /\ weekMenu[r] = Null
  /\ Respond(r, ExhaustedResponse(outcomes[r]))
  /\ UNCHANGED <<menus, clock, canteenId, attempts, menuId, inflight, calls, outcomes, created, solo, profile, body, reply, prompt, cookie, sent, siteVars>>

\* variant: the null check before the create is missing
CanPersistUnchecked(r) == LoopExits(r)

\* the handler goes on to persist the menu
CanPersist(r) == LoopExits(r) /\ weekMenu[r] # Null

\* prisma.menu.create
Create(r) ==
  /\ CanPersist(r)
  /\ clock < MaxMenus
  /\ clock' = clock + 1
  /\ menus' = menus \cup {[id |-> clock + 1, canteenId |-> canteenId[r], weekMenu |-> weekMenu[r], createdAt |-> clock + 1]}
  /\ menuId' = [menuId EXCEPT ![r] = clock + 1]
  /\ created' = [created EXCEPT ![r] = @ + 1]
  /\ pc' = [pc EXCEPT ![r] = "list"]
  /\ UNCHANGED <<canteenId, attempts, weekMenu, allMenus, response, inflight, calls, outcomes, solo, profile, body, reply, prompt, cookie, sent, siteVars>>

\* variant: the catch removes the record the request created
StoreFailureRollback(r) ==
  /\ Respond(r, SystemErrorResponse)
  /\ menus' = DeleteMany(menus, {menuId[r]})
  /\ UNCHANGED <<clock, canteenId, attempts, menuId, inflight, calls, outcomes, created, solo, profile, body, reply, prompt, cookie, sent, siteVars>>

\* a store operation rejects: the outer catch answers 500 'system error'
StoreFailure(r) ==
  /\ Respond(r, SystemErrorResponse)
  /\ UNCHANGED <<menus, clock, canteenId, attempts, menuId, inflight, calls, outcomes, created, solo, profile, body, reply, prompt, cookie, sent, siteVars>>

CreateFail(r) ==
  /\ CanPersist(r)
  /\ StoreFailure(r)

\* prisma.menu.findMany, then the answer when there is nothing to delete
List(r) ==
  /\ pc[r] = "list"
  /\ LET all == FindMany(menus, canteenId[r])
     IN IF Len(all) > RetentionCount
        THEN /\ allMenus' = [allMenus EXCEPT ![r] = IdsOf(all)]
             /\ pc' = [pc EXCEPT ![r] = "delete"]
             /\ UNCHANGED <<response, weekMenu>>
        ELSE Respond(r, SuccessResponse(weekMenu[r], menuId[r]))
  /\ UNCHANGED <<menus, clock, canteenId, attempts, menuId, inflight, calls, outcomes, created, solo, profile, body, reply, prompt, cookie, sent, siteVars>>

ListFail(r) ==
  /\ pc[r] = "list"
  /\ StoreFailure(r)

\* prisma.menu.deleteMany of allMenus.slice(4), then the answer
Delete(r) ==
  /\ pc[r] = "delete"
  /\ menus' = DeleteMany(menus, TrimTargets(allMenus[r]))
  /\ Respond(r, SuccessResponse(weekMenu[r], menuId[r]))
  /\ UNCHANGED <<clock, canteenId, attempts, menuId, inflight, calls, outcomes, created, solo, profile, body, reply, prompt, cookie, sent, siteVars>>

DeleteFail(r) ==
  /\ pc[r] = "delete"
  /\ StoreFailure(r)

\* one request at a time, with every outcome of every attempt
Next ==
  \/ Start("r1", "c1")
  \/ Issue("r1")
  \/ \E e \in TransportErrors : TransportFail("r1", e)
  \/ \E content \in AiContents : Return("r1", content)
  \/ Exhausted("r1")
  \/ Create("r1")
  \/ CreateFail("r1")
  \/ List("r1")
  \/ ListFail("r1")
  \/ Delete("r1")
  \/ DeleteFail("r1")

Spec == Init /\ [][Next]_vars

\* the steps of a request once it is admitted: the handler runs on, every
\* generator call returns or fails, every store operation returns or rejects
Progress(r) ==
  \/ Issue(r)
  \/ TransportFail(r, "network error")
  \/ \E content \in {Content(FALSE, FALSE, FALSE, EmptyObject), Content(TRUE, TRUE, TRUE, MenuA)} : Return(r, content)
  \/ Exhausted(r)
  \/ Create(r)
  \/ CreateFail(r)
  \/ List(r)
  \/ ListFail(r)
  \/ Delete(r)
  \/ DeleteFail(r)

NextFair == Start("r1", "c1") \/ Progress("r1")

\* requests arrive or not; an admitted request keeps running
FairSpec == Init /\ [][NextFair]_vars /\ WF_vars(Progress("r1"))

\* overlapping requests whose first attempt is accepted: every interleaving
\* of their store operations
NextOverlap ==
  \/ \E r \in Requests, c \in Canteens : Start(r, c)
  \/ \E r \in Requests : Issue(r)
  \/ \E r \in Requests : Return(r, Content(TRUE, TRUE, TRUE, MenuA))
  \/ \E r \in Requests : Create(r)
  \/ \E r \in Requests : CreateFail(r)
  \/ \E r \in Requests : List(r)
  \/ \E r \in Requests : ListFail(r)
  \/ \E r \in Requests : Delete(r)
  \/ \E r \in Requests : DeleteFail(r)

OverlapSpec == Init /\ [][NextOverlap]_vars

\* requests with every input of the instruction composer; the generator is
\* out of reach
ComposeInit ==
  /\ Idle
  /\ \E input \in ComposeInputs :
       /\ profile = [c \in Canteens |-> input[1]]
       /\ body = [r \in Requests |-> input[2]]
  /\ reply = NoReply
  /\ env = DocumentedEnv
  /\ accounts = Canteens

NextCompose ==
  \/ Start("r1", "c1")
  \/ Issue("r1")
  \/ TransportFail("r1", "network error")
  \/ Exhausted("r1")

ComposeSpec == ComposeInit /\ [][NextCompose]_vars

\* a generator that answers every call with the same text; the store is out
\* of reach
ValidatorInit ==
  /\ Idle
  /\ profile = [c \in Canteens |-> DefaultCanteen]
  /\ body = [r \in Requests |-> DefaultParams]
  /\ reply \in Replies
  /\ env = DocumentedEnv
  /\ accounts = Canteens

NextValidator ==
  \/ Start("r1", "c1")
  \/ Issue("r1")
  \/ Return("r1", Scan(reply))
  \/ Exhausted("r1")
  \/ CreateFail("r1")

ValidatorSpec == ValidatorInit /\ [][NextValidator]_vars

\* requests whose generator answers with the raw reply, with the store in reach
NextReply ==
  \/ Start("r1", "c1")
  \/ Issue("r1")
  \/ Return("r1", Scan(reply))
  \/ Exhausted("r1")
  \/ Create("r1")
  \/ CreateFail("r1")
  \/ List("r1")
  \/ ListFail("r1")
  \/ Delete("r1")
  \/ DeleteFail("r1")

ReplySpec == ValidatorInit /\ [][NextReply]_vars

\* ---------------------------------------------- registration and uploads
\* what the endpoints other than generate-menu never write
handlerVars == <<menus, clock, pc, canteenId, attempts, weekMenu, allMenus, menuId, response, inflight, calls,
                 outcomes, created, solo, body, reply, prompt, cookie, sent>>

\* POST /api/auth/register with a new canteen name: the record is stored as
\* the body gives it
Register(c, data) ==
  /\ c \notin accounts
  /\ accounts' = accounts \cup {c}
  /\ profile' = [profile EXCEPT ![c] =
                   createCanteen([hotDishCount |-> OrDefault(data.hotDishCount, 8),
                                  coldDishCount |-> OrDefault(data.coldDishCount, 3),
                                  historicalMenus |-> IF data.historicalMenus.given
                                                      THEN data.historicalMenus.pools ELSE <<>>])]
  /\ UNCHANGED <<handlerVars, env, upd, session, last>>

\* the status with which PUT history-menus turns a request away; 0 when it
\* goes on to write
UpdateStatus(tok, menuIndex, dishes) ==
  IF ~tok.present THEN 401
  ELSE IF ~Verifies(tok, Secret(env, "NEXTAUTH_SECRET")) THEN 401
  ELSE IF menuIndex < 0 \/ menuIndex > 3 THEN 400
  ELSE IF ~IsDishArray(dishes) THEN 400
  ELSE IF \E i \in 1..Len(dishes) : BadDish(dishes[i]) THEN 400
  ELSE IF tok.canteenId \notin accounts THEN 404
  ELSE IF Len(profile[tok.canteenId].historicalMenus) # 4 THEN 500
  ELSE 0

\* the request is turned away
UpdateRefuse(u, tok, menuIndex, dishes) ==
  /\ upd[u].pc = "idle"
  /\ UpdateStatus(tok, menuIndex, dishes) # 0
  /\ upd' = [upd EXCEPT ![u] = [pc |-> "done", cookie |-> tok, canteenId |-> tok.canteenId, menuIndex |-> menuIndex,
                                dishes |-> <<>>, current |-> <<>>, status |-> UpdateStatus(tok, menuIndex, dishes)]]
  /\ UNCHANGED <<handlerVars, profile, env, accounts, session, last>>

\* the request is checked and the canteen is read: prisma.canteen.findUnique
UpdateRead(u, tok, menuIndex, dishes) ==
  /\ upd[u].pc = "idle"
  /\ UpdateStatus(tok, menuIndex, dishes) = 0
  /\ upd' = [upd EXCEPT ![u] = [pc |-> "write", cookie |-> tok, canteenId |-> tok.canteenId, menuIndex |-> menuIndex,
                                dishes |-> cleanedDishes(dishes),
                                current |-> profile[tok.canteenId].historicalMenus, status |-> 0]]
  /\ UNCHANGED <<handlerVars, profile, env, accounts, session, last>>

\* prisma.canteen.update with the pools that were read, one of them replaced
UpdateWrite(u) ==
  /\ upd[u].pc = "write"
  /\ profile' = [profile EXCEPT ![upd[u].canteenId].historicalMenus =
                   ReplacePool(upd[u].current, upd[u].menuIndex, upd[u].dishes)]
  /\ upd' = [upd EXCEPT ![u].pc = "done", ![u].status = 200]
  /\ UNCHANGED <<handlerVars, env, accounts, session, last>>

\* a canteen registers, uploads dish lists and generates while the
\* generator is out of reach
ProfileInit ==
  /\ Idle
  /\ profile = [c \in Canteens |-> NoCanteen]
  /\ body = [r \in Requests |-> DefaultParams]
  /\ reply = NoReply
  /\ env = DocumentedEnv
  /\ accounts = {}

NextProfile ==
  \/ \E data \in Registrations : Register("c1", data)
  \/ \E u \in Uploads, menuIndex \in MenuIndexes, dishes \in UploadLists :
       UpdateRefuse(u, LoginToken("c1"), menuIndex, dishes)
  \/ \E u \in Uploads, menuIndex \in MenuIndexes, dishes \in UploadLists :
       UpdateRead(u, LoginToken("c1"), menuIndex, dishes)
  \/ \E u \in Uploads : UpdateWrite(u)
  \/ Start("r1", "c1")
  \/ Issue("r1")
  \/ TransportFail("r1", "network error")
  \/ Exhausted("r1")

ProfileSpec == ProfileInit /\ [][NextProfile]_vars

\* ------------------------------------------------- sessions in every endpoint
\* POST /api/auth/login with the password of a registered canteen: the
\* auth-token cookie is set
Login(c) ==
  /\ c \in accounts
  /\ session' = LoginToken(c)
  /\ UNCHANGED <<handlerVars, profile, env, accounts, upd, last>>

\* the 7 days of the token pass
Expire ==
  /\ session.present /\ ~session.expired
  /\ session' = Expired(session)
  /\ UNCHANGED <<handlerVars, profile, env, accounts, upd, last>>

\* GET history-menus
HistoryStatus(tok) ==
  IF ~tok.present THEN 401
  ELSE IF ~Verifies(tok, Secret(env, "JWT_SECRET")) THEN 500
  ELSE IF tok.canteenId \notin accounts THEN 404
  ELSE 200

HistoryGet(tok) ==
  /\ last' = [endpoint |-> "history-menus", cookie |-> tok, status |-> HistoryStatus(tok)]
  /\ UNCHANGED <<handlerVars, profile, env, accounts, upd, session>>

\* GET auth/me
MeStatus(tok) ==
  IF ~tok.present THEN 401
  ELSE IF ~Verifies(tok, Secret(env, "NEXTAUTH_SECRET")) THEN 401
  ELSE IF tok.canteenId \notin accounts THEN 404
  ELSE 200

MeGet(tok) ==
  /\ last' = [endpoint |-> "auth/me", cookie |-> tok, status |-> MeStatus(tok)]
  /\ UNCHANGED <<handlerVars, profile, env, accounts, upd, session>>

\* the auth-token cookies a request may carry: none, the one login set, one
\* signed with another key, one of a canteen that is not stored
Cookies == {NoToken, session, Sign("c1", "forged"), Sign("c2", Secret(env, "NEXTAUTH_SECRET"))}

\* every endpoint under every setting of the two secrets; canteen c2 is not
\* registered
AuthInit ==
  /\ Idle
  /\ profile = [c \in Canteens |-> IF c = "c1" THEN DefaultCanteen ELSE NoCanteen]
  /\ body = [r \in Requests |-> DefaultParams]
  /\ reply = NoReply
  /\ env \in Envs
  /\ accounts = {"c1"}

NextAuth ==
  \/ Login("c1")
  \/ Expire
  \/ \E tok \in Cookies : HistoryGet(tok)
  \/ \E tok \in Cookies : MeGet(tok)
  \/ \E tok \in Cookies : UpdateRefuse("u1", tok, 0, ListA)
  \/ \E tok \in Cookies : UpdateRead("u1", tok, 0, ListA)
  \/ UpdateWrite("u1")
  \/ \E tok \in Cookies, c \in Canteens : Admit("r1", tok, c)
  \/ \E tok \in Cookies, c \in Canteens : Refuse("r1", tok, c)
  \/ Issue("r1")
  \/ Return("r1", Content(TRUE, TRUE, TRUE, MenuA))
  \/ Create("r1")
  \/ List("r1")
  \/ Delete("r1")

AuthSpec == AuthInit /\ [][NextAuth]_vars

\* ------------------------------------------------------------ properties
\* the orchestrator's terminal states
Succeeded(r) == LoopExits(r) /\ weekMenu[r] # Null

IsExhausted(r) == LoopExits(r) /\ weekMenu[r] = Null

\* the retry loop of the request is over
Ended(r) == LoopExits(r) \/ pc[r] \in {"list", "delete", "done"}

AllFailed(us) == \A i \in 1..Len(us) : Kind(us[i]) # "valid"

TwoTransportThenValid(us) == Kinds(us) = <<"transport", "transport", "valid">>

\* C1: a client that fails at transport twice and then returns valid output
\* ends the loop in Succeeded after exactly 3 attempts; a client that fails
\* on every call ends it in Exhausted after exactly maxAttempts attempts: the
\* loop neither stops earlier nor goes on.
C1_AttemptCount ==
  \A r \in Requests :
    /\ (pc[r] = "loop" /\ TwoTransportThenValid(outcomes[r])) => (Succeeded(r) /\ attempts[r] = 3)
    /\ (pc[r] = "loop" /\ AllFailed(outcomes[r]) /\ attempts[r] < maxAttempts) => LoopContinues(r)
    /\ (pc[r] = "loop" /\ AllFailed(outcomes[r]) /\ attempts[r] >= maxAttempts) => (IsExhausted(r) /\ attempts[r] = maxAttempts)
    /\ (pc[r] = "done" /\ AllFailed(outcomes[r])) =>
         (attempts[r] = maxAttempts /\ response[r] = ExhaustedResponse(outcomes[r]))

C1_Witness == \E r \in Requests : Succeeded(r) /\ TwoTransportThenValid(outcomes[r])

FirstValid(us) == CHOOSE i \in 1..Len(us) : Kind(us[i]) = "valid" /\ \A j \in 1..(i - 1) : Kind(us[j]) # "valid"

ExpectedCalls(us) == IF AllFailed(us) THEN maxAttempts ELSE FirstValid(us)

\* C2: transport failures and parse failures draw on one counter: a request
\* makes one external call per attempt, never more than 3, none after a
\* valid output, and once its loop is over the number of calls is the index
\* of the first valid output, or 3 when no attempt was valid.
C2_SharedBudget ==
  \A r \in Requests :
    /\ calls[r] <= maxAttempts
    /\ calls[r] = attempts[r]
    /\ \A i \in 1..Len(outcomes[r]) : Kind(outcomes[r][i]) = "valid" => (i = Len(outcomes[r]) /\ calls[r] = i)
    /\ (Ended(r) /\ attempts[r] > 0) => calls[r] = ExpectedCalls(outcomes[r])

C2_Witness ==
  \E r \in Requests : pc[r] = "done" /\ calls[r] = 3 /\ Kinds(outcomes[r]) = <<"parse", "transport", "parse">>

FailureHistories == {<<>>} \cup {<<Thrown(e)>> : e \in TransportErrors} \cup {<<Returned(c)>> : c \in AiContents}

\* C3: a request that ends in Exhausted answers the fixed generation-failed
\* error: no menu, no record id, nothing of what the attempts returned; the
\* answer is the same whatever the upstream texts and errors were.
C3_ExhaustedIsOpaque ==
  \A r \in Requests :
    (pc[r] = "done" /\ attempts[r] = maxAttempts /\ AllFailed(outcomes[r])) =>
      /\ response[r].status = 500
      /\ response[r].menu = Null
      /\ response[r].menuId = 0
      /\ \A seen \in FailureHistories : response[r] = ExhaustedResponse(seen)

C3_Witness ==
  \E r \in Requests :
    /\ pc[r] = "done" /\ attempts[r] = maxAttempts
    /\ Kinds(outcomes[r]) = <<"transport", "parse", "parse">>
    /\ outcomes[r][2] # outcomes[r][3]

\* C4: a request creates at most one record, and only once its loop ended in
\* Succeeded: none while attempts are still failing, none when it ends in
\* Exhausted; every stored record holds a validated menu.
C4_PersistOnceAfterSuccess ==
  /\ \A r \in Requests :
       /\ created[r] <= 1
       /\ created[r] = 1 => (pc[r] \in {"list", "delete", "done"} /\ ~AllFailed(outcomes[r]))
       /\ AllFailed(outcomes[r]) => (created[r] = 0 /\ menuId[r] = 0)
  /\ \A m \in menus : m.weekMenu # Null

C4_Witness ==
  \E r \in Requests : created[r] = 1 /\ Len(outcomes[r]) = 3 /\ clock = 1

IsSuccess(resp) == resp.status = 200 /\ resp.menu # Null /\ resp.menuId # 0

\* C5: every run ends either with a success answer carrying the validated
\* menu and the id of a record that is in the store, or with the
\* generation-failed error after all attempts were used; stated here by its
\* closing clause: a run that persisted a record answers with that menu and
\* the id of that record.
C5_PersistedIsReturned ==
  \A r \in Requests :
    (pc[r] = "done" /\ created[r] = 1) =>
      /\ IsSuccess(response[r])
      /\ response[r].menuId = menuId[r]
      /\ \E m \in menus : m.id = menuId[r] /\ m.weekMenu = response[r].menu

\* the k most recent records of a set
TopRecords(S, k) == {m \in S : Cardinality({o \in S : o.createdAt > m.createdAt}) < k}

StoredIds == {m.id : m \in menus}

\* the step in which request r answers with success
FinishesOK(r) == pc[r] \in {"list", "delete"} /\ pc'[r] = "done" /\ response'[r].status = 200

\* the step in which request r creates its record
Creates(r) == pc[r] = "loop" /\ pc'[r] = "list"

C6_Step ==
  \A r \in Requests :
    LET c == canteenId[r]
        before == RecordsOf(c)
        after == {m \in menus' : m.canteenId = c}
    IN /\ Creates(r) =>
            /\ Cardinality(after) = Cardinality(before) + 1
            /\ \E m \in after \ before : m.id = menuId'[r] /\ \A o \in before : o.createdAt < m.createdAt
       /\ (FinishesOK(r) /\ solo[r]) =>
            /\ Cardinality(after) = Min2(Cardinality(before), RetentionCount)
            /\ after = TopRecords(before, RetentionCount)
            /\ \E m \in after : m.id = menuId[r]

C6_Alone ==
  \A r \in Requests :
    (solo[r] /\ pc[r] \in {"list", "delete"}) =>
      \E m \in RecordsOf(canteenId[r]) : m.id = menuId[r] /\ \A o \in RecordsOf(canteenId[r]) : o.createdAt <= m.createdAt

\* C6: a successful generation that runs alone for its account adds one
\* record, the newest, to the n the account has, and answers with the
\* account holding min(n+1, 4) records: the most recent ones by creation
\* time, the new one among them.
C6_Retention == [][C6_Step]_vars /\ []C6_Alone

C6_Witness ==
  \E r \in Requests :
    /\ pc[r] = "done" /\ response[r].status = 200 /\ solo[r]
    /\ menuId[r] = 6
    /\ {m.id : m \in RecordsOf(canteenId[r])} = {3, 4, 5, 6}
    /\ \A m \in menus : m.canteenId = canteenId[r]

C7_Step ==
  \A m \in menus \ menus' :
    /\ Cardinality({o \in menus : o.canteenId = m.canteenId /\ o.createdAt > m.createdAt}) >= RetentionCount
    /\ \A o \in menus' : o.canteenId = m.canteenId => o.createdAt > m.createdAt

\* the request that created the newest record of c has answered with success
NewestSettled(c) ==
  \E r \in Requests :
    /\ pc[r] = "done" /\ response[r].status = 200 /\ canteenId[r] = c
    /\ \A m \in RecordsOf(c) : m.createdAt <= menuId[r]

C7_Settled ==
  \A c \in Canteens :
    ((\A r \in Requests : ~Active(r)) /\ NewestSettled(c)) => Cardinality(RecordsOf(c)) <= RetentionCount

\* C7: whatever the interleaving of the create, list and delete steps of
\* overlapping requests of an account, a delete never removes one of the 4
\* most recent records the account has at that moment, every record it
\* removes is older than every record it leaves, and when no request is
\* running and the creator of the newest record has answered with success
\* the account holds at most 4 records.
C7_ConcurrentTrims == [][C7_Step]_vars /\ []C7_Settled

C7_Witness ==
  /\ \A r \in Requests : pc[r] = "done" /\ response[r].status = 200 /\ ~solo[r] /\ canteenId[r] = "c1"
  /\ Cardinality(RecordsOf("c1")) = RetentionCount
  /\ \A m \in RecordsOf("c1") : m.id >= 3

\* the ids a request is about to delete
Pending(r) == TrimTargets(allMenus[r])

C8_State ==
  /\ \A c \in Canteens :
       /\ Trim(Trim(menus, c), c) = Trim(menus, c)
       /\ TrimTargets(IdsOf(FindMany(Trim(menus, c), c))) = {}
  /\ \A r \in Requests :
       pc[r] = "delete" =>
         /\ DeleteMany(DeleteMany(menus, Pending(r)), Pending(r)) = DeleteMany(menus, Pending(r))
         /\ Pending(r) \cap StoredIds = {} => DeleteMany(menus, Pending(r)) = menus

C8_Step ==
  \A r \in Requests :
    (pc[r] = "delete" /\ pc'[r] = "done" /\ response'[r].status = 200 /\ Pending(r) \cap StoredIds = {}) => menus' = menus

\* C8: the trim is idempotent: on every store the requests can produce a
\* second trim right after a first one finds nothing to delete and leaves
\* the records as they are, and a delete of ids that are already deleted
\* changes nothing.
C8_TrimIdempotent == []C8_State /\ [][C8_Step]_vars

C8_Witness ==
  \E r \in Requests :
    /\ pc[r] = "delete" /\ Pending(r) # {} /\ Pending(r) \cap StoredIds = {}
    /\ Cardinality(RecordsOf(canteenId[r])) > RetentionCount

\* C9: when the list or the delete of the trim fails after the record was
\* created, the record stays in the store: the failure answer does not undo
\* the create.
C9_NoRollback ==
  \A r \in Requests :
    (pc[r] = "done" /\ created[r] = 1 /\ response[r] = SystemErrorResponse) =>
      \E m \in menus : m.id = menuId[r] /\ m.canteenId = canteenId[r]

C9_Witness ==
  \E r \in Requests :
    /\ pc[r] = "done" /\ created[r] = 1 /\ response[r] = SystemErrorResponse
    /\ Cardinality(RecordsOf(canteenId[r])) > RetentionCount

C10_State ==
  \A r \in Requests :
    /\ inflight[r] \in {0, 1}
    /\ inflight[r] = 1 <=> pc[r] = "await"
    /\ Len(outcomes[r]) = attempts[r] - inflight[r]

C10_Step ==
  \A r \in Requests :
    attempts'[r] = attempts[r] + 1 => (inflight[r] = 0 /\ Len(outcomes[r]) = attempts[r] /\ AllFailed(outcomes[r]))

\* C10: the retry loop is sequential: a request has at most one external
\* call in flight, and it issues attempt k+1 only when attempt k has come
\* back or failed and what it returned has been validated (and rejected).
C10_Sequential == []C10_State /\ [][C10_Step]_vars

C10_Witness == \E r \in Requests : pc[r] = "await" /\ attempts[r] = 3 /\ inflight[r] = 1

\* a value of the request no table has a key for
HasUnknown(params) ==
  \/ \E i \in 1..Len(params.equipmentShortage) : params.equipmentShortage[i] \notin DOMAIN EquipmentMapping
  \/ params.staffSituation \notin DOMAIN StaffMapping
  \/ params.spicyLevel \notin DOMAIN SpicyMapping
  \/ toString(params.flavorDiversity) \notin DOMAIN FlavorMapping
  \/ params.ingredientDiversity \notin DOMAIN IngredientMapping
  \/ params.workRatio \notin DOMAIN WorkRatioMapping

\* C11: a request with an unknown enumerated constraint value fails before
\* any external generation call is made: it makes no call and never waits
\* for one.
C11_UnknownFailsFast ==
  \A r \in Requests : HasUnknown(body[r]) => (calls[r] = 0 /\ inflight[r] = 0 /\ pc[r] # "await")

\* what the last finished attempt of a request returned
Last(us) == us[Len(us)]

\* a reply without text, without a payload, or with a payload that lacks a
\* day or has a string for a day
BadReply(t) == ~t.defined \/ t.payload = <<>> \/ t.payload[2] \in {"F", "S"}

\* C12: a reply that lacks a day key or has a day that is no array is
\* rejected, and so is every reply in which no payload is found or decoded,
\* a reply without text included; the rejection comes to the loop as null: the
\* request goes on to its next attempt and can only end with the
\* generation-failed answer after 3 attempts, never with the system error.
C12_RejectsAsNull ==
  \A r \in Requests :
    (BadReply(reply) /\ Len(outcomes[r]) > 0 /\ Last(outcomes[r]).ok) =>
      /\ parseMenuResponse(Last(outcomes[r]).content) = Null
      /\ pc[r] = "loop" => (weekMenu[r] = Null /\ response[r] = NoResponse)
      /\ (pc[r] = "loop" /\ attempts[r] < maxAttempts) => LoopContinues(r)
      /\ pc[r] = "done" => (attempts[r] = maxAttempts /\ response[r] = ExhaustedResponse(outcomes[r]))

C12_Witness ==
  \E r \in Requests :
    /\ pc[r] = "done" /\ response[r] = ExhaustedResponse(outcomes[r])
    /\ reply = Reply(TRUE, <<"x">>, <<"{", "S", "}">>, <<"x">>)

AllArrays(data) == \A day \in Days : data[day].type = "array"

\* a menu that misses the daily number of dishes of the canteen
ViolatesQuota(data, canteenInfo) ==
  \E day \in Days : Len(data[day].items) # canteenInfo.hotDishCount + canteenInfo.coldDishCount

\* C13: a decoded payload whose five days are all arrays is accepted as it
\* is, empty arrays included, whatever the number of dishes the canteen asks
\* for: the loop ends in Succeeded with that menu, and a menu stored or
\* returned may miss the numeric targets.
C13_StructureOnly ==
  \A r \in Requests :
    (pc[r] = "loop" /\ Len(outcomes[r]) > 0 /\ Last(outcomes[r]).ok
       /\ Last(outcomes[r]).content.decodes /\ AllArrays(Last(outcomes[r]).content.data)) =>
      /\ Succeeded(r)
      /\ weekMenu[r] = Some(Last(outcomes[r]).content.data)

C13_Witness ==
  \E r \in Requests :
    /\ pc[r] = "done" /\ response[r].status = 200
    /\ response[r].menu = Some(MenuEmptyDays)
    /\ ViolatesQuota(MenuEmptyDays, profile[canteenId[r]])
    /\ \E m \in menus : m.id = response[r].menuId /\ m.weekMenu = Some(MenuEmptyDays)

\* the reply holds a payload whose five days are all arrays
WellFormed(t) == t.defined /\ t.payload # <<>> /\ t.payload[2] \in {"A", "E"}

Has(prose, token) == \E i \in 1..Len(prose) : prose[i] = token

\* the validator's verdict on the last reply of request r is the payload the
\* reply holds
Extracted(r) == parseMenuResponse(Last(outcomes[r]).content) = Some(PayloadData[reply.payload[2]])

Composed(r) == pc[r] # "idle"

\* the canteen and the ratio of request r are in the quota's domain
ValidQuotaInput(r) ==
  /\ profile[canteenId[r]].hotDishCount >= 1
  /\ profile[canteenId[r]].coldDishCount >= 1
  /\ body[r].historicalRatio \in Percents

\* (hot + cold) * 5 for the canteen of request r
WeekOf(r) == (profile[canteenId[r]].hotDishCount + profile[canteenId[r]].coldDishCount) * 5

\* C15: for hot >= 1, cold >= 1 and a ratio of 0..100 percent the historical
\* and the original count add up to the weekly total, the weekly total is
\* (hot + cold) * 5, and the historical count lies between 0 and the total,
\* so the original count is not negative.
C15_QuotaInvariant ==
  \A r \in Requests :
    (Composed(r) /\ ValidQuotaInput(r)) =>
      /\ prompt[r].historicalDishCount + prompt[r].originalDishCount = prompt[r].totalDishesPerWeek
      /\ prompt[r].totalDishesPerWeek = WeekOf(r)
      /\ 0 <= prompt[r].historicalDishCount
      /\ prompt[r].historicalDishCount <= prompt[r].totalDishesPerWeek
      /\ prompt[r].originalDishCount >= 0

C15_Witness ==
  \E r \in Requests :
    /\ Composed(r) /\ body[r].historicalRatio = 50
    /\ prompt[r].totalDishesPerWeek = 55
    /\ prompt[r].historicalDishCount = 28
    /\ prompt[r].originalDishCount = 27

\* C16: the historical count is total * pct / 100 rounded with halves going
\* up, floor((total * pct + 50) / 100), for every valid input; 8 hot and 3
\* cold dishes at 30 percent give a total of 55, 17 historical and 38
\* original dishes.
C16_RoundHalfUp ==
  \A r \in Requests :
    (Composed(r) /\ ValidQuotaInput(r)) =>
      /\ prompt[r].historicalDishCount = (WeekOf(r) * body[r].historicalRatio + 50) \div 100
      /\ (profile[canteenId[r]].hotDishCount = 8 /\ profile[canteenId[r]].coldDishCount = 3 /\ body[r].historicalRatio = 30) =>
           /\ prompt[r].totalDishesPerWeek = 55
           /\ prompt[r].historicalDishCount = 17
           /\ prompt[r].originalDishCount = 38

C16_Witness ==
  \E r \in Requests :
    /\ Composed(r)
    /\ profile[canteenId[r]].hotDishCount = 8 /\ profile[canteenId[r]].coldDishCount = 3
    /\ body[r].historicalRatio = 30
    /\ prompt[r].historicalDishCount = 17

\* C17: for every valid hot and cold count a ratio of 0 gives no historical
\* dish and an original count equal to the total; a ratio of 100 gives
\* (hot + cold) * 5 historical dishes and no original dish.
C17_QuotaEndpoints ==
  \A r \in Requests :
    (Composed(r) /\ ValidQuotaInput(r)) =>
      /\ body[r].historicalRatio = 0 =>
           (prompt[r].historicalDishCount = 0 /\ prompt[r].originalDishCount = WeekOf(r))
      /\ body[r].historicalRatio = 100 =>
           (prompt[r].historicalDishCount = WeekOf(r) /\ prompt[r].originalDishCount = 0)

C17_Witness ==
  \E r \in Requests :
    /\ Composed(r) /\ body[r].historicalRatio = 100
    /\ profile[canteenId[r]].hotDishCount = 8 /\ profile[canteenId[r]].coldDishCount = 3
    /\ prompt[r].historicalDishCount = 55 /\ prompt[r].originalDishCount = 0

\* every selected value is a key of the equipment table
KnownSelection(sel) == \A i \in 1..Len(sel) : sel[i] \in DOMAIN EquipmentMapping

NonEmptyText(text) == \E i \in 1..Len(text) : text[i] # ""

\* C18: for a non-empty selection of equipment values the text of rule 1 is
\* the fragment of each selected value, in the order selected, with the
\* separator between neighbours, and each fragment is non-empty; for the
\* empty selection it is the default fragment alone; in both cases the text
\* is not empty.
C18_EquipmentJoin ==
  \A r \in Requests :
    LET sel == body[r].equipmentShortage
        text == prompt[r].equipmentRequirement
    IN (Composed(r) /\ KnownSelection(sel)) =>
         /\ Len(sel) > 0 =>
              /\ Len(text) = 2 * Len(sel) - 1
              /\ \A i \in 1..Len(sel) : text[2 * i - 1] = EquipmentMapping[sel[i]] /\ text[2 * i - 1] # ""
              /\ \A i \in 1..(Len(sel) - 1) : text[2 * i] = Separator
         /\ Len(sel) = 0 => text = <<DefaultEquipmentRequirement>>
         /\ NonEmptyText(text)

C18_Witness ==
  \E r \in Requests :
    /\ Composed(r)
    /\ body[r].equipmentShortage = <<"steamer", "wok", "roaster">>
    /\ Len(prompt[r].equipmentRequirement) = 5

\* the number of dishes in the pools before pool p
RECURSIVE Offset(_, _)
Offset(pools, p) == IF p <= 1 THEN 0 ELSE Offset(pools, p - 1) + Len(pools[p - 1])

\* C19: the sample of the instruction has min(number of dishes in the pools,
\* historicalDishCount + 10) dishes, and its k-th dish is the k-th dish of
\* the pools taken pool after pool, each in its own order: nothing is
\* reordered, repeated or taken from beyond that prefix.
C19_SamplePrefix ==
  \A r \in Requests :
    LET pools == profile[canteenId[r]].historicalMenus
        sample == prompt[r].historicalDishes
    IN Composed(r) =>
         /\ Len(sample) = Min2(Offset(pools, Len(pools) + 1), prompt[r].historicalDishCount + 10)
         /\ \A p \in 1..Len(pools) : \A j \in 1..Len(pools[p]) :
              Offset(pools, p) + j <= Len(sample) => sample[Offset(pools, p) + j] = pools[p][j]

C19_Witness ==
  \E r \in Requests :
    /\ Composed(r)
    /\ profile[canteenId[r]].historicalMenus = Pools(<<0, MaxPool, MaxPool \div 2, MaxPool>>)
    /\ prompt[r].historicalDishCount = 3
    /\ Len(prompt[r].historicalDishes) = 13

\* how often a number is put into a part of the instruction
Occurrences(numbers, v) == Cardinality({i \in 1..Len(numbers) : numbers[i] = v})

\* the request of the scenario: 8 hot and 3 cold dishes, 30 percent
Scenario(r) ==
  /\ Composed(r)
  /\ profile[canteenId[r]].hotDishCount = 8
  /\ profile[canteenId[r]].coldDishCount = 3
  /\ body[r].historicalRatio = 30

\* 55, 17 and 38 are each in the text before the rules
InNarrative(r) ==
  /\ Occurrences(prompt[r].narrative, 55) >= 1
  /\ Occurrences(prompt[r].narrative, prompt[r].historicalDishCount) >= 1
  /\ Occurrences(prompt[r].narrative, prompt[r].originalDishCount) >= 1

\* C20 as stated: in the scenario the closing list holds the weekly total
\* 55, the historical count and the original count exactly once each, and
\* the text before the rules holds each at least once.
C20_ChecklistRepeatsAll ==
  \A r \in Requests :
    Scenario(r) =>
      /\ Occurrences(Flat(prompt[r].checklist), 55) = 1
      /\ Occurrences(Flat(prompt[r].checklist), prompt[r].historicalDishCount) = 1
      /\ Occurrences(Flat(prompt[r].checklist), prompt[r].originalDishCount) = 1
      /\ InNarrative(r)

\* C20: in the scenario the closing list holds the historical count 17 and
\* the original count 38 exactly once each, next to the daily counts 11, 8
\* and 3, and does not hold the weekly total 55; the text before the rules
\* holds 55, 17 and 38 at least once each.
C20_ChecklistRepeatsQuota ==
  \A r \in Requests :
    Scenario(r) =>
      /\ prompt[r].historicalDishCount = 17 /\ prompt[r].originalDishCount = 38
      /\ Occurrences(Flat(prompt[r].checklist), 17) = 1
      /\ Occurrences(Flat(prompt[r].checklist), 38) = 1
      /\ Occurrences(Flat(prompt[r].checklist), 55) = 0
      /\ Occurrences(Flat(prompt[r].checklist), 11) = 1
      /\ InNarrative(r)

C20_Witness ==
  \E r \in Requests :
    /\ Scenario(r)
    /\ Flat(prompt[r].checklist) = <<11, 8, 3, 17, 38>>
    /\ Occurrences(prompt[r].narrative, 17) = 2

\* C21: every attempt of a request sends the instruction that was composed
\* once before the first attempt, also when the canteen's dish pools are
\* replaced by an upload while the request retries.
C21_SameInstruction ==
  \A r \in Requests : \A i \in 1..Len(sent[r]) : sent[r][i] = prompt[r]

\* three attempts were sent and the stored canteen no longer composes to
\* the instruction they carried
C21_Witness ==
  /\ Len(sent["r1"]) = maxAttempts
  /\ \E u \in Uploads : upd[u].status = 200
  /\ sent["r1"][maxAttempts] # buildPrompt(profile["c1"], body["r1"], profile["c1"].historicalMenus)

\* C22: a step of a generation request for one canteen, its persist and its
\* trim included, leaves the menu records and the profile of every other
\* canteen as they were, in every interleaving of two requests.
C22_OtherCanteensUntouched ==
  [][\A c \in Canteens :
       (\A r \in Requests : pc'[r] # pc[r] => canteenId'[r] # c)
         => /\ RecordsOf(c)' = RecordsOf(c)
            /\ profile'[c] = profile[c]]_vars

\* canteen c1 was trimmed to the retained records while c2 holds a record
C22_Witness ==
  /\ clock > RetentionCount + 1
  /\ Cardinality(RecordsOf("c1")) = RetentionCount
  /\ RecordsOf("c2") # {}
  /\ \E r \in Requests : canteenId[r] = "c1" /\ pc[r] = "done" /\ response[r].status = 200

StringArray(v) == v.type = "array" /\ v.elem = "string"

IsWeekMenu(m) == m # Null /\ \A day \in Days : StringArray(m[1][day])

\* C23: every WeekMenu that is returned to the caller or stored has the five
\* day slots, each an array whose elements are all strings.
C23_WeekMenuShape ==
  /\ \A r \in Requests : (pc[r] = "done" /\ response[r].status = 200) => IsWeekMenu(response[r].menu)
  /\ \A m \in menus : IsWeekMenu(m.weekMenu)

DishName(dish) == dish.type = "string" /\ ~IsEmptyString(dish) /\ trim(dish) = dish

\* C24: after any sequence of registrations and pool uploads every stored
\* canteen has exactly 4 dish pools, none of them empty, and every dish
\* name is a non-empty trimmed string.
C24_ProfileInvariant ==
  \A c \in accounts :
    /\ Len(profile[c].historicalMenus) = 4
    /\ \A p \in 1..Len(profile[c].historicalMenus) :
         /\ Len(profile[c].historicalMenus[p]) > 0
         /\ \A i \in 1..Len(profile[c].historicalMenus[p]) : DishName(profile[c].historicalMenus[p][i])

Stored(u) == profile[upd[u].canteenId].historicalMenus[upd[u].menuIndex + 1] = upd[u].dishes

\* C28: two pool uploads of one canteen for different pool indexes both take
\* effect: once both have answered 200, each of the two pools holds the
\* dishes uploaded for it, whatever the interleaving of their reads and writes.
C28_BothUploadsTakeEffect ==
  \A u, v \in Uploads :
    (/\ upd[u].status = 200 /\ upd[v].status = 200
     /\ upd[u].canteenId = upd[v].canteenId
     /\ upd[u].menuIndex # upd[v].menuIndex) => (Stored(u) /\ Stored(v))

Verified(r) == Verifies(cookie[r], Secret(env, "NEXTAUTH_SECRET"))

Owner(r) == Verified(r) /\ cookie[r].canteenId = canteenId[r] /\ canteenId[r] \in accounts

Answered(r, status) == response[r].status = status /\ calls[r] = 0 /\ created[r] = 0

\* a step in which request r is answered by the gate
GateAnswers(r) ==
  /\ ~Active(r) /\ pc'[r] = "done"
  /\ <<cookie[r], canteenId[r], response[r]>>' # <<cookie[r], canteenId[r], response[r]>>
  /\ response'[r].status \in {401, 403, 404}

InvalidToken(tok) == tok.present /\ ~Verifies(tok, Secret(env, "NEXTAUTH_SECRET"))

\* C25: generate-menu, history-menus, the history-menus update and auth/me
\* answer a request whose auth-token cookie is present but invalid or expired
\* with 401, never 500, and call no generator and write no store for it.
C25_InvalidTokenIs401 ==
  /\ \A r \in Requests :
       (pc[r] = "done" /\ InvalidToken(cookie[r])) =>
         (response[r].status = 401 /\ calls[r] = 0 /\ created[r] = 0)
  /\ (last.endpoint # "" /\ InvalidToken(last.cookie)) => last.status = 401
  /\ \A u \in Uploads : (upd[u].pc # "idle" /\ InvalidToken(upd[u].cookie)) => upd[u].status = 401

\* the cookie is the token the last login set, and it has not expired
FromLogin(tok) == session.present /\ ~session.expired /\ tok = session

Rejects(status) == status \in {401, 500}

\* C29: under every setting of the secret environment variables, a token
\* set by a successful login is accepted, until it expires, by generate-menu,
\* auth/me, history-menus and the history-menus update.
C29_LoginTokenAccepted ==
  /\ \A r \in Requests : (pc[r] = "done" /\ FromLogin(cookie[r])) => ~Rejects(response[r].status)
  /\ (last.endpoint # "" /\ FromLogin(last.cookie)) => ~Rejects(last.status)
  /\ \A u \in Uploads : (upd[u].pc = "done" /\ FromLogin(upd[u].cookie)) => ~Rejects(upd[u].status)

\* C30: for every canteen with 1 to 20 hot dishes the form's initial values
\* are a valid request: the main-meat, half-meat and vegetarian counts are
\* each at least 1 and add up to the number of hot dishes.
C30_DefaultsValid ==
  \A c \in Canteens :
    profile[c].hotDishCount \in 1..20 =>
      LET d == getDefaultValues(profile[c])
      IN /\ d.mainMeatCount >= 1
         /\ d.halfMeatCount >= 1
         /\ d.vegetarianCount >= 1
         /\ d.mainMeatCount + d.halfMeatCount + d.vegetarianCount = profile[c].hotDishCount

\* C26: with every generator call returning or failing and every store
\* operation returning, a generation request reaches an answer (success,
\* 'generation failed' or an error), and the attempt counter is never above 3.
C26_Terminates ==
  /\ [](\A r \in Requests : attempts[r] <= maxAttempts)
  /\ Active("r1") ~> pc["r1"] = "done"

\* a request answered 'generation failed' after the three attempts
C26_Witness ==
  /\ pc["r1"] = "done" /\ response["r1"] = ExhaustedResponse(outcomes["r1"])
  /\ attempts["r1"] = maxAttempts

====
